---- MODULE Spec2Model ----
(***************************************************************************)
(* Model of the Learner class of ac-learn (src/index.js).                  *)
(*                                                                         *)
(* One Learner object is the state.  Every method of the class is one      *)
(* action.  The npm dependencies the class calls (train-test-split,        *)
(* limdu's partitions/test/PrecisionRecall, serialization) are modelled by *)
(* what the called function does at the call site; the repository's own    *)
(* modules that index.js requires (./src/classifier, ./src/evaluate,       *)
(* ./src/categories, ./src/conv) are modelled from their contract.         *)
(* Ratios (Precision, Recall, F1, Accuracy, Specificity) are real numbers  *)
(* derived from the counts and are left out; the counts are kept.          *)
(***************************************************************************)
EXTENDS Integers, Sequences, FiniteSets, TLC

VARIABLES
  dataset,            \* this.dataset
  trainSplit,         \* this.trainSplit, in percent
  trainSet,           \* this.trainSet
  testSet,            \* this.testSet
  classifier,         \* trained state of this.classifier: the samples it was trained on
  classifierBuilder,  \* this.classifierBuilder
  macroAvg,           \* this.macroAvg (Undefined until crossValidate)
  microAvg,           \* this.microAvg (Undefined until crossValidate)
  plain,              \* this Learner was made by the constructor and crossValidate was never called on it
  phase,              \* "new", "trained" (train() was the last of train/eval), "evaluated" (train() then eval())
  answers,            \* what classifier.classify answers for each input (opaque to the Learner)
  ret,                \* outcome of the last method call
  file,               \* content of the classifier file on disk
  promise,            \* the promise of the last save/load call
  ioLog               \* what the fs callback of the last save/load call did

vars == <<dataset, trainSplit, trainSet, testSet, classifier, classifierBuilder,
          macroAvg, microAvg, plain, phase, answers, ret, file, promise, ioLog>>

learnerVars == <<dataset, trainSplit, trainSet, testSet, classifier, classifierBuilder,
                 macroAvg, microAvg, plain, phase, answers>>

ioVars == <<file, promise, ioLog>>

----------------------------------------------------------------------------
(* Bounds *)

\* longest dataset explored
MaxLen == 3

\* largest numOfFolds passed to crossValidate
MaxFolds == 4

\* most properties, besides classifier, that a JSON given to fromJSON lacks
MaxDropped == 1

----------------------------------------------------------------------------
(* Data *)

\* JS undefined, for fields that hold objects
Undefined == [undefined |-> TRUE]

\* require('./src/categories')
categories == {"A", "B"}

\* Sample objects.  id is the object's identity; s1 and s2 are equal by value.
s1 == [id |-> 1, input |-> "x", output |-> "A"]
s2 == [id |-> 2, input |-> "x", output |-> "A"]
s3 == [id |-> 3, input |-> "y", output |-> "B"]
Samples == {s1, s2, s3}

\* require('./src/conv')('io'): the default dataset
labelDS == <<s1, s2, s3>>

\* Datasets a caller can pass: arrays of sample objects (an object may occur
\* twice), listed up to the order of the objects
Datasets ==
  {d \in UNION {[1..n -> Samples] : n \in 1..MaxLen} :
     \A i, j \in DOMAIN d : i < j => d[i].id <= d[j].id}

Inputs == {s.input : s \in Samples}

\* trainSplit values a caller passes, in percent
TrainSplits == {50}

\* the constructor's default parameters: trainSplit = .8, classifier = classifierBuilder
DefaultTrainSplit == 80
DefaultBuilder == "classifierBuilder"

\* The options the constructor is called with: none (all defaults), or a dataset,
\* a trainSplit and a classifier builder of the caller's
Options ==
  {[dataset |-> labelDS, trainSplit |-> DefaultTrainSplit, classifier |-> DefaultBuilder]}
  \cup {[dataset |-> d, trainSplit |-> s, classifier |-> "customBuilder"] :
          d \in Datasets, s \in TrainSplits}

Range(s) == {s[i] : i \in DOMAIN s}

Min(a, b) == IF a < b THEN a ELSE b
Max(a, b) == IF a > b THEN a ELSE b

\* the elements of s at the positions in P, in their order in s
RECURSIVE SubSeqAt(_, _, _)
SubSeqAt(s, P, i) ==
  IF i > Len(s) THEN <<>>
  ELSE (IF i \in P THEN <<s[i]>> ELSE <<>>) \o SubSeqAt(s, P, i + 1)

----------------------------------------------------------------------------
(* train-test-split *)

\* Math.round(n * trainSplit)
TrainSize(n, split) == (n * split + 50) \div 100

\* trainTestSplit(dataset, trainSplit): the results the (randomised) split can
\* give: TrainSize positions go to train, the other positions to test.
trainTestSplit(ds, split) ==
  { [train |-> SubSeqAt(ds, P, 1), test |-> SubSeqAt(ds, (DOMAIN ds) \ P, 1)] :
      P \in {Q \in SUBSET (DOMAIN ds) : Cardinality(Q) = Min(TrainSize(Len(ds), split), Len(ds))} }

----------------------------------------------------------------------------
(* Results of calls *)

Ok(op, v) == [op |-> op, kind |-> "ok", value |-> v]
Throw(op, e) == [op |-> op, kind |-> "throw", error |-> e]

\* no save or load was started yet
NoPromise == [op |-> "none", state |-> "none", data |-> Undefined, value |-> Undefined]
NoIO == [err |-> "none", deserialized |-> "no", uncaught |-> "none"]

----------------------------------------------------------------------------
(* constructor *)

\* the fresh classifier classifier() returns: trained on nothing
NewClassifier == {}

Init ==
  /\ \E opts \in Options :
       /\ dataset = opts.dataset
       /\ trainSplit = opts.trainSplit
       /\ classifierBuilder = opts.classifier
  /\ \E sp \in trainTestSplit(dataset, trainSplit) :
       /\ trainSet = sp.train
       /\ testSet = sp.test
  /\ classifier = NewClassifier
  /\ macroAvg = Undefined
  /\ microAvg = Undefined
  /\ plain = TRUE
  /\ phase = "new"
  /\ answers \in [Inputs -> categories]
  /\ ret = Ok("constructor", Undefined)
  /\ file = Undefined
  /\ promise = NoPromise
  /\ ioLog = NoIO

----------------------------------------------------------------------------
(* train *)

\* classifier.trainBatch(samples): adds the samples to the trained state
trainBatch(cls, samples) == cls \cup Range(samples)

Train ==
  /\ classifier' = trainBatch(classifier, trainSet)
  /\ phase' = "trained"
  /\ ret' = Ok("train", Undefined)
  /\ UNCHANGED <<dataset, trainSplit, trainSet, testSet, classifierBuilder,
                 macroAvg, microAvg, plain, answers>>
  /\ UNCHANGED ioVars

----------------------------------------------------------------------------
(* limdu.utils.PrecisionRecall *)

\* new PrecisionRecall()
NewPrecisionRecall == [count |-> 0, TP |-> 0, TN |-> 0, FP |-> 0, FN |-> 0]

\* PrecisionRecall.addCases(expectedClasses, actualClasses): every predicted
\* class is a TP or an FP, every expected class that was not predicted an FN;
\* TN is not touched; count goes up by one per sample.
addCases(stats, expectedClasses, actualClasses) ==
  [stats EXCEPT !.TP = @ + Cardinality(actualClasses \cap expectedClasses),
                !.FP = @ + Cardinality(actualClasses \ expectedClasses),
                !.FN = @ + Cardinality(expectedClasses \ actualClasses),
                !.count = @ + 1]

\* hash.add(macroSum, currentStats.fullStats()): field-wise sum
hashAdd(sum, stats) ==
  [count |-> sum.count + stats.count, TP |-> sum.TP + stats.TP, TN |-> sum.TN + stats.TN,
   FP |-> sum.FP + stats.FP, FN |-> sum.FN + stats.FN]

\* the classes of a sample's output
normalizeClasses(output) == {output}

\* classifier.classify(input): the classifier's answer
classify(ans, input) == ans[input]

\* hash.normalized(classes): the set of the classes named
normalized(classes) == {classes}

\* limdu.utils.test(classifier, testSet, verbosity, microAverage, macroSum), the
\* loop over testSet from sample i on; pred is the classifier's answers
RECURSIVE testLoop(_, _, _, _, _)
testLoop(testSet_, i, pred, currentStats, microAverage) ==
  IF i > Len(testSet_) THEN [currentStats |-> currentStats, microAverage |-> microAverage]
  ELSE LET expectedClasses == normalizeClasses(testSet_[i].output)
           actualClasses == normalized(classify(pred, testSet_[i].input))
       IN testLoop(testSet_, i + 1, pred,
                   addCases(currentStats, expectedClasses, actualClasses),
                   addCases(microAverage, expectedClasses, actualClasses))

test(testSet_, pred, microAverage, macroSum) ==
  LET r == testLoop(testSet_, 1, pred, NewPrecisionRecall, microAverage)
  IN [microAverage |-> r.microAverage, macroSum |-> hashAdd(macroSum, r.currentStats)]

----------------------------------------------------------------------------
(* limdu.utils.partitions *)

\* Array.prototype.splice(start, deleteCount) with integer arguments:
\* the removed elements and what is left
splice(arr, start, deleteCount) ==
  LET from == Min(Max(start, 0), Len(arr))
      cnt == Min(Max(deleteCount, 0), Len(arr) - from)
  IN [removed |-> SubSeq(arr, from + 1, from + cnt),
      left |-> SubSeq(arr, 1, from) \o SubSeq(arr, from + cnt + 1, Len(arr))]

\* partitions.partition(dataset, testSetStart, testSetCount), with
\* testSetStart = num1/den and testSetCount = num2/den: splice truncates both
partition(ds, startNum, countNum, den) ==
  LET sp == splice(ds, startNum \div den, countNum \div den)
  IN [train |-> sp.left, test |-> sp.removed]

\* partitions.partitions(dataset, numOfPartitions, callback): the (trainSet, testSet)
\* pairs the callback is called with, in order.  testSetCount = dataset.length /
\* numOfPartitions, testSetStart = iPartition * testSetCount; neither is rounded
\* before splice, and numOfPartitions is not checked.  The folds are cut from the
\* dataset in its own order: which element lands in which fold does not matter
\* to the properties below, only the positions do.
partitions(ds, numOfPartitions) ==
  IF numOfPartitions <= 0 THEN <<>>
  ELSE [iPartition \in 1..numOfPartitions |->
          partition(ds, (iPartition - 1) * Len(ds), Len(ds), numOfPartitions)]

----------------------------------------------------------------------------
(* crossValidate *)

\* The callback of crossValidate run on the folds from fold i on: train on the
\* fold's trainSet, then test its testSet.  folds records, per fold, the sets it
\* was given and the classifier's trained state when the testSet is classified.
RECURSIVE runFolds(_, _, _, _, _, _, _)
runFolds(parts, i, pred, cls, micro, macro, folds) ==
  IF i > Len(parts) THEN [classifier |-> cls, microAvg |-> micro, macroAvg |-> macro, folds |-> folds]
  ELSE LET trained == trainBatch(cls, parts[i].train)
           t == test(parts[i].test, pred, micro, macro)
       IN runFolds(parts, i + 1, pred, trained, t.microAverage, t.macroSum,
                   Append(folds, [trainSet |-> parts[i].train, testSet |-> parts[i].test,
                                  trained |-> trained]))

\* crossValidate(numOfFolds): the Learner's new classifier state and accumulators,
\* the folds it ran and the report it returns
crossValidate(ds, cls, numOfFolds, pred) ==
  LET r == runFolds(partitions(ds, numOfFolds), 1, pred, cls,
                    NewPrecisionRecall, NewPrecisionRecall, <<>>)
  IN [r EXCEPT !.folds = r.folds] @@ [report |-> [macroAvg |-> r.macroAvg, microAvg |-> r.microAvg]]

CrossValidate ==
  \E numOfFolds \in 0..MaxFolds :
    \E r \in {crossValidate(dataset, classifier, numOfFolds, answers)} :
       /\ classifier' = r.classifier
       /\ microAvg' = r.microAvg
       /\ macroAvg' = r.macroAvg
       /\ plain' = FALSE
       /\ ret' = [op |-> "crossValidate", kind |-> "ok", value |-> r.report,
                  numOfFolds |-> numOfFolds, folds |-> r.folds]
       /\ UNCHANGED <<dataset, trainSplit, trainSet, testSet, classifierBuilder, phase, answers>>
       /\ UNCHANGED ioVars

----------------------------------------------------------------------------
(* eval, classify *)

\* evaluate({classifier, test, train}): trains the classifier on train, tests it
\* on test with a fresh accumulator and returns the stats
evaluate(cls, train_, test_, pred) ==
  [classifier |-> trainBatch(cls, train_),
   report |-> testLoop(test_, 1, pred, NewPrecisionRecall, NewPrecisionRecall).currentStats]

\* eval that keeps the stats on the Learner (this.microAvg = the report)
Eval_recordsStats ==
  \E r \in {evaluate(classifier, trainSet, testSet, answers)} :
     /\ classifier' = r.classifier
     /\ microAvg' = r.report
     /\ phase' = IF phase = "trained" THEN "evaluated" ELSE phase
     /\ ret' = Ok("eval", r.report)
     /\ UNCHANGED <<dataset, trainSplit, trainSet, testSet, classifierBuilder,
                    macroAvg, plain, answers>>
     /\ UNCHANGED ioVars

Eval ==
  \E r \in {evaluate(classifier, trainSet, testSet, answers)} :
     /\ classifier' = r.classifier
     /\ phase' = IF phase = "trained" THEN "evaluated" ELSE phase
     /\ ret' = Ok("eval", r.report)
     /\ UNCHANGED <<dataset, trainSplit, trainSet, testSet, classifierBuilder,
                    macroAvg, microAvg, plain, answers>>
     /\ UNCHANGED ioVars

Classify ==
  \E data \in Inputs :
    /\ ret' = Ok("classify", classify(answers, data))
    /\ UNCHANGED learnerVars
    /\ UNCHANGED ioVars

----------------------------------------------------------------------------
(* getCategoryPartition, getStats *)

\* Array.prototype.includes on an array of objects: by identity
includes(arr, x) == \E i \in DOMAIN arr : arr[i].id = x.id

getCategoryPartition(ds, train_, test_) ==
  [cat \in categories |->
     [overall |-> Cardinality({i \in DOMAIN ds : ds[i].output = cat}),
      test |-> Cardinality({i \in DOMAIN ds : ds[i].output = cat /\ includes(test_, ds[i])}),
      train |-> Cardinality({i \in DOMAIN ds : ds[i].output = cat /\ includes(train_, ds[i])})]]

\* the report getStats builds from an accumulator
statsReport(micro, ds, train_, test_) ==
  [TP |-> micro.TP, TN |-> micro.TN, FP |-> micro.FP, FN |-> micro.FN,
   totalCount |-> micro.count,
   trainCount |-> Len(train_),
   testCount |-> Len(test_),
   categoryPartition |-> getCategoryPartition(ds, train_, test_)]

\* getStats with `= this.microAvg || new PrecisionRecall()`: an empty report instead of the throw
getStats_emptyReport(micro, ds, train_, test_) ==
  Ok("getStats", statsReport(IF micro = Undefined THEN NewPrecisionRecall ELSE micro,
                             ds, train_, test_))

\* getStats(): destructuring this.microAvg throws a TypeError when it is undefined
getStats(micro, ds, train_, test_) ==
  IF micro = Undefined THEN Throw("getStats", "TypeError")
  ELSE Ok("getStats", statsReport(micro, ds, train_, test_))

GetStats ==
  /\ ret' = getStats(microAvg, dataset, trainSet, testSet)
  /\ UNCHANGED learnerVars
  /\ UNCHANGED ioVars

GetCategoryPartition ==
  /\ ret' = Ok("getCategoryPartition", getCategoryPartition(dataset, trainSet, testSet))
  /\ UNCHANGED learnerVars
  /\ UNCHANGED ioVars

----------------------------------------------------------------------------
(* serializeClassifier, deserializeClassifier *)

\* serialize.toString(classifier, classifierBuilder): the string holds the
\* builder and the classifier's trained state
serializeClassifier(cls, builder) == [createNewObjectString |-> builder, object |-> cls]

\* serialize.fromString(string): JSON.parse of undefined throws a SyntaxError,
\* otherwise the classifier is rebuilt with the trained state the string holds
deserializeClassifier(serializedClassifier) ==
  IF serializedClassifier = Undefined THEN Throw("deserializeClassifier", "SyntaxError")
  ELSE Ok("deserializeClassifier", serializedClassifier.object)

----------------------------------------------------------------------------
(* toJSON, fromJSON *)

\* A JSON object: props are the properties it has, the other fields their values
\* (the value of a property it does not have is not read).
PropNames == {"classifier", "classifierBuilder", "dataset", "trainSplit",
              "trainSet", "testSet", "macroAvg", "microAvg"}

\* the Learner as a record of its fields
Learner(ds, split, train_, test_, cls, builder, macro, micro) ==
  [dataset |-> ds, trainSplit |-> split, trainSet |-> train_, testSet |-> test_,
   classifier |-> cls, classifierBuilder |-> builder, macroAvg |-> macro, microAvg |-> micro]

this == Learner(dataset, trainSplit, trainSet, testSet, classifier, classifierBuilder,
                macroAvg, microAvg)

toJSON(L) ==
  [props |-> {"classifier", "classifierBuilder", "dataset", "trainSplit", "trainSet", "testSet"}
             \cup (IF L.macroAvg # Undefined THEN {"macroAvg"} ELSE {})
             \cup (IF L.microAvg # Undefined THEN {"microAvg"} ELSE {}),
   classifier |-> serializeClassifier(L.classifier, L.classifierBuilder),
   classifierBuilder |-> L.classifierBuilder,
   dataset |-> L.dataset,
   trainSplit |-> L.trainSplit,
   trainSet |-> L.trainSet,
   testSet |-> L.testSet,
   macroAvg |-> L.macroAvg,
   microAvg |-> L.microAvg]

\* the arguments fromJSON passes to the constructor, after the defaults
ctorDataset(json) == IF "dataset" \in json.props THEN json.dataset ELSE labelDS
ctorTrainSplit(json) == IF "trainSplit" \in json.props THEN json.trainSplit ELSE DefaultTrainSplit

\* the list with trainSet and testSet commented out, like dataset and trainSplit
ALLOWED_PROPS_noSets == {"classifierBuilder", "macroAvg", "microAvg"}

ALLOWED_PROPS == {"classifierBuilder", "trainSet", "testSet", "macroAvg", "microAvg"}

\* the value of property prop of the new Learner after the copy loop
copied(json, prop, own) ==
  IF prop \in ALLOWED_PROPS /\ prop \in json.props THEN json[prop] ELSE own

\* fromJSON that deserializes only `if (json.classifier)`, keeping the
\* constructor's fresh classifier otherwise
fromJSON_optionalClassifier(json, sp) ==
  LET newLearner ==
        Learner(ctorDataset(json), ctorTrainSplit(json),
                copied(json, "trainSet", sp.train), copied(json, "testSet", sp.test),
                NewClassifier,
                copied(json, "classifierBuilder", DefaultBuilder),
                copied(json, "macroAvg", Undefined), copied(json, "microAvg", Undefined))
  IN IF "classifier" \in json.props
     THEN Ok("fromJSON", [newLearner EXCEPT !.classifier = deserializeClassifier(json.classifier).value])
     ELSE Ok("fromJSON", newLearner)

\* Learner.fromJSON(json); sp is the split the constructor draws
fromJSON(json, sp) ==
  LET newLearner ==
        Learner(ctorDataset(json), ctorTrainSplit(json),
                copied(json, "trainSet", sp.train), copied(json, "testSet", sp.test),
                NewClassifier,
                copied(json, "classifierBuilder", DefaultBuilder),
                copied(json, "macroAvg", Undefined), copied(json, "microAvg", Undefined))
      d == deserializeClassifier(IF "classifier" \in json.props THEN json.classifier ELSE Undefined)
  IN IF d.kind = "throw" THEN Throw("fromJSON", d.error)
     ELSE Ok("fromJSON", [newLearner EXCEPT !.classifier = d.value])

\* the properties a caller's JSON may lack
DroppableProps == {"classifier", "dataset", "trainSplit", "trainSet", "testSet", "macroAvg", "microAvg"}

\* The JSON objects fromJSON is called with: what toJSON returned, whole, or
\* less the classifier and up to MaxDropped other properties
Drops ==
  {{}} \cup {P \in SUBSET DroppableProps : "classifier" \in P /\ Cardinality(P) <= 1 + MaxDropped}

\* The new Learner replaces this one: the caller goes on with it
Become(L) ==
  /\ dataset' = L.dataset
  /\ trainSplit' = L.trainSplit
  /\ trainSet' = L.trainSet
  /\ testSet' = L.testSet
  /\ classifier' = L.classifier
  /\ classifierBuilder' = L.classifierBuilder
  /\ macroAvg' = L.macroAvg
  /\ microAvg' = L.microAvg
  /\ plain' = FALSE
  /\ phase' = "new"
  /\ UNCHANGED answers

\* Learner.fromJSON(json) with json = this.toJSON(), whole or less some properties.
\* When it throws, the split the constructor drew is lost with the new Learner.
FromJSON ==
  \E dropped \in Drops :
    \E json \in {[toJSON(this) EXCEPT !.props = @ \ dropped]} :
      \E splits \in {trainTestSplit(ctorDataset(json), ctorTrainSplit(json))} :
        \E sp \in (IF "classifier" \in json.props THEN splits ELSE {CHOOSE s \in splits : TRUE}) :
          \E r \in {fromJSON(json, sp)} :
            /\ ret' = [op |-> "fromJSON", kind |-> r.kind,
                       hasClassifier |-> "classifier" \in json.props,
                       lacking |-> Cardinality(dropped)]
            /\ IF r.kind = "ok" THEN Become(r.value) ELSE UNCHANGED learnerVars
            /\ UNCHANGED ioVars

----------------------------------------------------------------------------
(* serializeAndSaveClassifier, loadAndDeserializeClassifier *)

\* errors fs passes to the callback; "null" is success
FsErrors == {"null", "EIO"}

\* resolve(v) and reject(e) of a promise: only the first call settles it
resolve(p, v) == IF p.state = "pending" THEN [p EXCEPT !.state = "resolved", !.value = v] ELSE p
reject(p, e) == IF p.state = "pending" THEN [p EXCEPT !.state = "rejected", !.value = e] ELSE p

\* serializeAndSaveClassifier(file): the executor serializes the classifier and
\* hands the data to writeFile
SerializeAndSaveClassifier ==
  /\ promise.state # "pending"
  /\ promise' = [op |-> "save", state |-> "pending",
                 data |-> serializeClassifier(classifier, classifierBuilder), value |-> Undefined]
  /\ ioLog' = NoIO
  /\ ret' = Ok("serializeAndSaveClassifier", "promise")
  /\ UNCHANGED file
  /\ UNCHANGED learnerVars

\* the callback of writeFile: if (err) reject(err); resolve(data)
writeFileCallback(p, err) ==
  LET p1 == IF err # "null" THEN reject(p, err) ELSE p
  IN [promise |-> resolve(p1, p.data),
      ioLog |-> [err |-> err, deserialized |-> "no", uncaught |-> "none"]]

WriteFileCallback ==
  /\ promise.op = "save"
  /\ promise.state = "pending"
  /\ \E err \in FsErrors :
       \E r \in {writeFileCallback(promise, err)} :
         /\ promise' = r.promise
         /\ ioLog' = r.ioLog
         /\ file' = IF err = "null" THEN promise.data ELSE file
  /\ UNCHANGED ret
  /\ UNCHANGED learnerVars

\* loadAndDeserializeClassifier(file): the executor calls readFile
LoadAndDeserializeClassifier ==
  /\ promise.state # "pending"
  /\ promise' = [op |-> "load", state |-> "pending", data |-> Undefined, value |-> Undefined]
  /\ ioLog' = NoIO
  /\ ret' = Ok("loadAndDeserializeClassifier", "promise")
  /\ UNCHANGED file
  /\ UNCHANGED learnerVars

\* the callback of readFile: if (err) reject(err); then deserializeClassifier(data)
\* is called and the promise resolved with its result; data is undefined when err
\* is set, and an exception of deserializeClassifier leaves the callback uncaught
readFileCallback(p, err, data) ==
  LET p1 == IF err # "null" THEN reject(p, err) ELSE p
      d == deserializeClassifier(data)
  IN IF d.kind = "throw"
     THEN [promise |-> p1,
           ioLog |-> [err |-> err, deserialized |-> "undefined", uncaught |-> d.error]]
     ELSE [promise |-> resolve(p1, d.value),
           ioLog |-> [err |-> err, deserialized |-> "data", uncaught |-> "none"]]

\* readFile succeeds only on a file that was written; it can fail on any
ReadFileCallback ==
  /\ promise.op = "load"
  /\ promise.state = "pending"
  /\ \E err \in (IF file = Undefined THEN {"ENOENT"} ELSE FsErrors) :
       \E r \in {readFileCallback(promise, err, IF err = "null" THEN file ELSE Undefined)} :
         /\ promise' = r.promise
         /\ ioLog' = r.ioLog
  /\ UNCHANGED <<file, ret>>
  /\ UNCHANGED learnerVars

----------------------------------------------------------------------------
(* Properties *)

\* how often object s occurs in array arr
Count(arr, s) == Cardinality({i \in DOMAIN arr : arr[i] = s})

\* the testSets of the folds from fold i on, concatenated
RECURSIVE TestSets(_, _)
TestSets(folds, i) ==
  IF i > Len(folds) THEN <<>> ELSE folds[i].testSet \o TestSets(folds, i + 1)

\* no object occurs twice in the dataset
DistinctSamples == \A i, j \in DOMAIN dataset : i # j => dataset[i].id # dataset[j].id

C2_EachFoldTrainsFresh ==
  (ret.op = "crossValidate" /\ DistinctSamples) =>
    \A i \in DOMAIN ret.folds : ret.folds[i].trained = Range(ret.folds[i].trainSet)

\* C3 as stated: after train() then eval(), with no crossValidate, getStats()
\* succeeds and its totalCount is the size of the testSet.
C3_GetStatsAfterEval ==
  (plain /\ phase = "evaluated" /\ ret.op = "getStats") =>
    (ret.kind = "ok" /\ ret.value.totalCount = Len(testSet))

\* C3 amended: after train() then eval(), with no crossValidate, the Learner
\* still has no microAvg, and getStats() throws instead of returning a totalCount.
C3_NoStatsAfterEval ==
  (plain /\ phase = "evaluated") =>
    /\ microAvg = Undefined
    /\ ret.op = "getStats" => (ret.kind = "throw" /\ ret.error = "TypeError")

\* C3 witness: train(), eval(), then getStats() on a Learner with a non-empty testSet
C3_Witness ==
  plain /\ phase = "evaluated" /\ ret.op = "getStats" /\ Len(testSet) > 0

\* C4: after crossValidate the pooled counts add up to the number of test samples
\* classified over all folds, TP+TN+FP+FN = count; getStats reports such counts.
C4_ConfusionCountsAddUp ==
  /\ ret.op = "crossValidate" =>
       /\ microAvg.count = Len(TestSets(ret.folds, 1))
       /\ microAvg.TP + microAvg.TN + microAvg.FP + microAvg.FN = microAvg.count
  /\ (ret.op = "getStats" /\ ret.kind = "ok") =>
       ret.value.TP + ret.value.TN + ret.value.FP + ret.value.FN = ret.value.totalCount

\* C5: a finished save or load resolved with the data (the classifier) if fs
\* reported no error; if fs reported an error it is rejected with that error,
\* nothing was deserialized and no other error was raised.
C5_OneResolution ==
  (promise.op # "none" /\ promise.state # "pending" /\ ioLog.err # "none") =>
    IF ioLog.err = "null"
    THEN /\ promise.state = "resolved"
         /\ promise.value = (IF promise.op = "save" THEN promise.data ELSE file.object)
    ELSE /\ promise.state = "rejected"
         /\ promise.value = ioLog.err
         /\ ioLog.deserialized = "no"
         /\ ioLog.uncaught = "none"

C7_BadFoldCountFails ==
  ret.op = "crossValidate" =>
    /\ (ret.numOfFolds < 2 \/ ret.numOfFolds > Len(dataset)) => ret.kind = "throw"
    /\ \A i \in DOMAIN ret.folds :
         ret.folds[i].trainSet # <<>> /\ ret.folds[i].testSet # <<>>

\* C8: for 2 <= k <= |dataset|, crossValidate(k) runs k folds whose testSets
\* together hold every sample of the dataset exactly once, each fold's trainSet is
\* the dataset less its testSet, and testSet sizes differ by at most 1 (stated for
\* datasets of distinct samples).
C8_FoldsPartitionDataset ==
  (ret.op = "crossValidate" /\ DistinctSamples
     /\ ret.numOfFolds >= 2 /\ Len(dataset) >= ret.numOfFolds) =>
    /\ Len(ret.folds) = ret.numOfFolds
    /\ \A s \in Samples : Count(TestSets(ret.folds, 1), s) = Count(dataset, s)
    /\ \A i \in DOMAIN ret.folds : \A s \in Samples :
         Count(ret.folds[i].trainSet, s) + Count(ret.folds[i].testSet, s) = Count(dataset, s)
    /\ \A i, j \in DOMAIN ret.folds :
         Len(ret.folds[i].testSet) - Len(ret.folds[j].testSet) <= 1

\* C9: Learner.fromJSON(L.toJSON()) has L's dataset, trainSplit, trainSet,
\* testSet and classifierBuilder, and L's microAvg and macroAvg (or none if L has
\* none): every fromJSON step on the whole JSON leaves these fields as they were.
C9_JSONRoundTrip ==
  [][(ret'.op = "fromJSON" /\ ret'.kind = "ok" /\ ret'.lacking = 0) =>
       /\ dataset' = dataset
       /\ trainSplit' = trainSplit
       /\ trainSet' = trainSet
       /\ testSet' = testSet
       /\ classifierBuilder' = classifierBuilder
       /\ microAvg' = microAvg
       /\ macroAvg' = macroAvg]_vars

\* C9 witness: a round trip of a Learner with a caller's builder, stats, and a
\* dataset the constructor can split in several ways
C9_Witness ==
  /\ ret.op = "fromJSON" /\ ret.kind = "ok" /\ ret.lacking = 0
  /\ classifierBuilder # DefaultBuilder
  /\ microAvg # Undefined
  /\ Len(trainSet) > 0 /\ Len(testSet) > 0

\* C10: getCategoryPartition() gives, for every category, overall = train + test
\* with overall the number of dataset samples of the category, and the overall
\* counts add up to |dataset|.
C10_CategoryPartitionAddsUp ==
  ret.op = "getCategoryPartition" =>
    /\ \A cat \in categories :
         /\ ret.value[cat].overall = ret.value[cat].train + ret.value[cat].test
         /\ ret.value[cat].overall = Cardinality({i \in DOMAIN dataset : dataset[i].output = cat})
    /\ ret.value["A"].overall + ret.value["B"].overall = Len(dataset)

----------------------------------------------------------------------------
(* Specifications *)

\* the Learner's synchronous methods
Next == Train \/ Eval \/ Classify \/ CrossValidate \/ GetStats \/ GetCategoryPartition \/ FromJSON

Spec == Init /\ [][Next]_vars

\* saving and loading the classifier, between trainings
NextIO ==
  \/ Train
  \/ SerializeAndSaveClassifier
  \/ WriteFileCallback
  \/ LoadAndDeserializeClassifier
  \/ ReadFileCallback

SpecIO == Init /\ [][NextIO]_vars

====
